---- MODULE Spec2Model ----
(***************************************************************************)
(* stream_player.js: run() replays a recorded session numIterations times  *)
(* in batches of numConcurrent playStream() sessions and folds the         *)
(* per-session statistics.  JavaScript runs every callback to completion   *)
(* and drains the promise reactions it queued before the next I/O or timer *)
(* callback, so one action is one callback together with the promise       *)
(* continuations it triggers (a batch settling resumes run(), which starts *)
(* the next batch up to each session's first await).                       *)
(***************************************************************************)
EXTENDS Integers, Sequences, FiniteSets, TLC

VARIABLES
    options,        \* [numIterations, numConcurrent, debugProtocol] (lines 23-28)
    serverAddress,  \* "none" | "valid" | "invalid" | "local" (argument of run, line 69)
    fileSize,       \* size of the recorded file as fs.stat reports it
    timed,          \* TRUE: the clock advances and timers wait for their deadline
    clock,          \* Date.now(), in ms since run() was called
    pc,             \* position of run(): start, listen, await, done, failed, crashed
    nullServer,     \* "null" | "starting" | "listening" | "closed" (line 55)
    jobs,           \* the deferred jobs not yet spliced off (line 72)
    next,           \* the batch run() is awaiting (line 85)
    results,        \* the results array, in push order (line 73)
    sess,           \* per job: the closure state of its playStream call
    invoked,        \* per job: how many times the deferred job was called
    ret,            \* the value run() returned, NoStats before
    errors,         \* the jobs whose promise rejected, in order of rejection
    runError,       \* the job whose error run() threw, 0 if none
    listens,        \* calls of nullServer.listen
    closes,         \* calls of nullServer.close
    remote          \* what the remote server will still send: [frames, bytes, sizes]

vars == <<options, serverAddress, fileSize, timed, clock, pc, nullServer, jobs,
          next, results, sess, invoked, ret, errors, runError, listens, closes,
          remote>>

\* ---------------------------------------------------------------- bounds
MaxIterations == 3
MaxConcurrent == 2
MaxFileSize == 1
MaxBlob == 2
MaxFrames == 2
MaxClock == 1250
TickMs == 250

\* ------------------------------------------------------------- constants
RECEIVE_DATA_TIMEOUT == 500

\* a variable declared without initialiser (line 107)
UNDEF == -1
\* the result of arithmetic on undefined (lines 178-179)
NaN == -2

\* dataHash after digest(): a Hash object cannot be used again (line 155)
DIGESTED == -3

\* the sizes a header may carry; UNDEF for a header that declares none
HeaderSizes == {UNDEF} \cup (0..MaxBlob)

\* latency of the timer service: a due timer runs within one tick
Epsilon == TickMs

JobIds == 1..(MaxIterations + 1)

Min(a, b) == IF a < b THEN a ELSE b

\* JavaScript a - b on numbers that may be undefined
Minus(a, b) == IF a = UNDEF \/ b = UNDEF \/ a = NaN \/ b = NaN THEN NaN ELSE a - b

\* JavaScript a + b on numbers that may be NaN
Plus(a, b) == IF a = NaN \/ b = NaN THEN NaN ELSE a + b

NoStats == [bytesSent |-> UNDEF, bytesReceived |-> UNDEF,
            sendTime |-> UNDEF, receiveTime |-> UNDEF]

ZeroStats == [receiveTime |-> 0, bytesReceived |-> 0, sendTime |-> 0, bytesSent |-> 0]

\* ------------------------------------------------------------ playStream
\* the closure of a playStream call that has not been made
NewSession ==
    [spc |-> "idle", size |-> UNDEF, timer |-> FALSE, deadline |-> 0,
     ended |-> FALSE, file |-> "none",
     sendStartTime |-> UNDEF, sendEndTime |-> UNDEF,
     receiveStartTime |-> UNDEF, receiveEndTime |-> UNDEF,
     bytesReceived |-> 0, inBlob |-> FALSE, remaining |-> 0,
     hdrSize |-> UNDEF, dataHash |-> UNDEF, out |-> <<>>, sent |-> 0,
     lastEvent |-> "none", lastEventAt |-> UNDEF,
     closedBy |-> "none", resolves |-> 0, result |-> NoStats]

\* setTimer (lines 114-116): a new timeout replaces the handle in `timer`; it
\* is only ever called with no timeout pending (at line 160, and at a dataEnd,
\* whose header cleared the one before)
SetTimer(s) == [s EXCEPT !.timer = TRUE, !.deadline = clock + RECEIVE_DATA_TIMEOUT]

\* ClearTimer that leaves the timeout pending
ClearTimerNoop(s) == s

\* clearTimeout(timer) (line 150)
ClearTimer(s) == [s EXCEPT !.timer = FALSE]

\* the object resolved on 'close' (lines 175-180)
JobResult(s) ==
    [bytesSent |-> s.size,
     bytesReceived |-> s.bytesReceived,
     sendTime |-> Minus(s.sendEndTime, s.sendStartTime),
     receiveTime |-> Minus(s.receiveEndTime, s.receiveStartTime)]

\* ClientEnd with the promise resolved by the timer callback instead of by 'close'
ClientEndResolves(s) ==
    IF s.spc \in {"connecting", "open"}
    THEN [s EXCEPT !.ended = TRUE, !.resolves = @ + 1]
    ELSE s

\* client.end('') in the timer callback (line 115)
ClientEnd(s) ==
    IF s.spc \in {"connecting", "open"} THEN [s EXCEPT !.ended = TRUE] ELSE s

\* the closure once its promise has resolved: of its variables only the timer
\* handle is still referenced (by the pending timeout callback, line 115);
\* nothing reads the counters and timestamps again
Retire(s) ==
    [NewSession EXCEPT !.spc = "closed", !.timer = s.timer, !.deadline = s.deadline,
                       !.closedBy = s.closedBy, !.resolves = s.resolves,
                       !.result = s.result]

\* the 'close' handler (lines 174-181): the promise resolves with the result
OnClose(s) ==
    Retire([s EXCEPT !.closedBy = IF s.ended THEN "local" ELSE "remote",
                     !.resolves = @ + 1,
                     !.result = JobResult(s)])

\* a timeout is due: setTimeout never runs its callback before the delay
Expired(s) == timed => clock >= s.deadline

\* --------------------------------------------------------------------- run
\* BuildJobs with the loop test <= instead of <
BuildJobsInclusive(n) == [k \in 1..(n + 1) |-> k]

\* the jobs array after the loop of lines 74-82
BuildJobs(n) == [k \in 1..n |-> k]

\* Splice taking one element too many
SpliceOneMore(js, k) == SubSeq(js, 1, Min(k + 1, Len(js)))

\* Splice taking one element too few
SpliceOneLess(js, k) == SubSeq(js, 1, Min(k - 1, Len(js)))

\* jobs.splice(0, numConcurrent) (line 85): the elements removed
Splice(js, k) == SubSeq(js, 1, Min(k, Len(js)))

\* AllFulfilled as Promise.race would settle: on the first session to close
AnyFulfilled(s, batch) == \E i \in batch : s[i].spc = "closed"

\* Promise.all over the batch is fulfilled (line 86)
AllFulfilled(s, batch) == \A i \in batch : s[i].spc = "closed"

\* AllRejected as Promise.allSettled followed by a check would behave: the
\* error surfaces only once every session of the batch has settled
RejectedWhenSettled(s, batch) ==
    /\ \E i \in batch : s[i].spc = "failed"
    /\ \A i \in batch : s[i].spc \in {"closed", "failed"}

\* Promise.all over the batch is rejected (line 86)
AllRejected(s, batch) == \E i \in batch : s[i].spc = "failed"

RECURSIVE Fold(_, _)
\* results.reduce(..., prev) (lines 91-102): cur += prev, return cur
Fold(rs, prev) ==
    IF rs = <<>> THEN prev
    ELSE LET cur == Head(rs)
             acc == [bytesSent |-> Plus(cur.bytesSent, prev.bytesSent),
                     bytesReceived |-> Plus(cur.bytesReceived, prev.bytesReceived),
                     sendTime |-> Plus(cur.sendTime, prev.sendTime),
                     receiveTime |-> Plus(cur.receiveTime, prev.receiveTime)]
         IN Fold(Tail(rs), acc)

\* Reduce with = in place of +=: the last result is returned as it is
ReduceAssign(rs) == IF rs = <<>> THEN ZeroStats ELSE rs[Len(rs)]

\* results.reduce with its initial value (lines 91-102)
Reduce(rs) == Fold(rs, ZeroStats)

\* calling a deferred job (lines 76-80): playStream runs to its first await
Invoke(s) == [s EXCEPT !.spc = "pathExists"]

SeqSet(q) == {q[k] : k \in 1..Len(q)}

\* the results array after reduce: cur is the array's own element, so every
\* element ends up holding the running total (lines 92-96)
Mutated(rs) == [k \in 1..Len(rs) |-> Fold(SubSeq(rs, 1, k), ZeroStats)]

\* nullServer.close() when a server was created (line 89)
CloseServer(srv) == IF srv # "null" THEN "closed" ELSE srv

\* the loop of lines 84-87 from its test, then lines 89-102; srv is the
\* server's state when the loop is entered
Loop(js, s, rs, srv) ==
    IF Len(js) > 0
    THEN LET batch == Splice(js, options.numConcurrent) IN
         /\ pc' = "await"
         /\ next' = SeqSet(batch)
         /\ jobs' = SubSeq(js, Len(batch) + 1, Len(js))
         /\ sess' = [i \in JobIds |-> IF i \in SeqSet(batch) THEN Invoke(s[i]) ELSE s[i]]
         /\ invoked' = [i \in JobIds |-> IF i \in SeqSet(batch) THEN invoked[i] + 1
                                         ELSE invoked[i]]
         /\ results' = rs
         /\ nullServer' = srv
         /\ UNCHANGED <<ret, closes>>
    ELSE /\ pc' = "done"
         /\ next' = {}
         /\ jobs' = js
         /\ sess' = s
         /\ nullServer' = CloseServer(srv)
         /\ closes' = IF srv # "null" THEN closes + 1 ELSE closes
         /\ ret' = Reduce(rs)
         /\ results' = Mutated(rs)
         /\ UNCHANGED invoked

\* run() is called (lines 55-65); with an address it goes straight on to the
\* loops of lines 72-87
RunStart ==
    /\ pc = "start"
    /\ IF serverAddress = "none"
       THEN /\ nullServer' = "starting"
            /\ listens' = listens + 1
            /\ pc' = "listen"
            /\ UNCHANGED <<jobs, next, results, sess, invoked, ret, closes>>
       ELSE /\ Loop(BuildJobs(options.numIterations), sess, results, nullServer)
            /\ UNCHANGED listens
    /\ UNCHANGED <<options, serverAddress, fileSize, timed, clock, errors, runError,
                   remote>>

\* the listen callback (line 63) resumes run() at line 67
Listening ==
    /\ pc = "listen"
    /\ nullServer = "starting"
    /\ serverAddress' = "local"
    /\ Loop(BuildJobs(options.numIterations), sess, results, "listening")
    /\ UNCHANGED <<options, fileSize, timed, clock, errors, runError, listens, remote>>

\* the process is running: an uncaught exception has not ended it
Alive == pc # "crashed"

\* playStream throws (line 109, or a rejected await of lines 110-111): the job's
\* promise rejects (line 80), Promise.all rejects and run() throws at line 86
Throw(i) ==
    LET s1 == [sess EXCEPT ![i].spc = "failed"] IN
    /\ sess' = s1
    /\ errors' = Append(errors, i)
    /\ IF pc = "await" /\ AllRejected(s1, next)
       THEN pc' = "failed" /\ runError' = i
       ELSE UNCHANGED <<pc, runError>>
    /\ UNCHANGED <<options, serverAddress, fileSize, timed, clock, nullServer, jobs,
                   next, results, invoked, ret, listens, closes, remote>>

\* a callback that only changes the closure of session i
Local(i, s) ==
    /\ sess' = [sess EXCEPT ![i] = s]
    /\ UNCHANGED <<options, serverAddress, fileSize, timed, clock, pc, nullServer, jobs,
                   next, results, invoked, ret, errors, runError, listens, closes,
                   remote>>

\* await fs.pathExists(filePath) (line 109)
PathExists(i) ==
    /\ Alive
    /\ sess[i].spc = "pathExists"
    /\ \E exists \in BOOLEAN :
          IF exists THEN Local(i, [sess[i] EXCEPT !.spc = "stat"]) ELSE Throw(i)

\* await fs.stat(filePath) (line 110)
Stat(i) ==
    /\ Alive
    /\ sess[i].spc = "stat"
    /\ \E ok \in BOOLEAN :
          IF ok THEN Local(i, [sess[i] EXCEPT !.spc = "parse", !.size = fileSize])
          ELSE Throw(i)

\* the rest of playStream after the address is parsed (lines 111-182): the
\* connection and the file stream are created and the idle timer is armed
Connect(s) ==
    SetTimer([s EXCEPT !.spc = "connecting", !.file = "opening"])

\* await helpers.parseAndValidateAddressString(...) (line 111)
ParseAddress(i) ==
    /\ Alive
    /\ sess[i].spc = "parse"
    /\ IF serverAddress \in {"valid", "local"}
       THEN Local(i, Connect(sess[i]))
       ELSE Throw(i)

\* the connection is established (line 112)
Connected(i) ==
    /\ Alive
    /\ sess[i].spc = "connecting"
    /\ Local(i, [sess[i] EXCEPT !.spc = "open"])

\* an 'error' event nobody listens for, or an exception thrown by a listener,
\* ends the process as an uncaught exception: nothing of its state remains;
\* the session it came from is left marked with the cause
Crash(i, cause) ==
    /\ pc' = "crashed"
    /\ nullServer' = "null"
    /\ jobs' = <<>>
    /\ next' = {}
    /\ results' = <<>>
    /\ sess' = [j \in JobIds |-> IF j = i THEN [NewSession EXCEPT !.spc = cause]
                                 ELSE NewSession]
    /\ invoked' = [j \in JobIds |-> 0]
    /\ ret' = NoStats
    /\ errors' = <<>>
    /\ runError' = 0
    /\ listens' = 0
    /\ closes' = 0
    /\ UNCHANGED <<options, serverAddress, fileSize, timed, clock, remote>>

\* the socket emits 'error' (refused, reset): no listener handles it and the
\* pipe's own handler re-emits it (lines 112, 171)
ConnError(i) ==
    /\ Alive
    /\ sess[i].spc \in {"connecting", "open"}
    /\ Crash(i, "connError")

\* the file stream emits 'error' (the file cannot be opened or read): it has
\* no 'error' listener either (lines 118-124)
FileError(i) ==
    /\ Alive
    /\ sess[i].spc \in {"connecting", "open"}
    /\ sess[i].file \in {"opening", "open"}
    /\ Crash(i, "fileError")

\* the decoder rejects the inbound bytes and emits 'error': no listener
\* (lines 126-158)
DecoderError(i) ==
    /\ Alive
    /\ sess[i].spc = "open"
    /\ serverAddress = "valid"
    /\ Crash(i, "decoderError")

\* fileStream 'open' (lines 120-121)
FileOpen(i) ==
    /\ Alive
    /\ sess[i].spc \in {"connecting", "open"}
    /\ sess[i].file = "opening"
    /\ Local(i, [sess[i] EXCEPT !.file = "open", !.sendStartTime = clock])

\* fileStream 'close' (lines 122-123)
FileClose(i) ==
    /\ Alive
    /\ sess[i].spc \in {"connecting", "open"}
    /\ sess[i].file = "open"
    /\ Local(i, [sess[i] EXCEPT !.file = "closed", !.sendEndTime = clock])

\* the line printed for a header (lines 134-147): the size token is pushed
\* when header.size is truthy, and the line is then left open for the digest
HeaderLine(size) ==
    [kind |-> "header", size |-> IF size > 0 THEN size ELSE UNDEF, newline |-> ~(size > 0)]

\* HeaderListener with receiveStartTime set by on('header') instead of once
HeaderListenerOn(s, size, debug) ==
    ClearTimer([s EXCEPT !.receiveStartTime = clock,
                         !.inBlob = size # UNDEF,
                         !.remaining = IF size = UNDEF THEN 0 ELSE size,
                         !.hdrSize = size,
                         !.dataHash = IF debug THEN 0 ELSE @,
                         !.out = IF debug THEN Append(@, HeaderLine(size)) ELSE @,
                         !.lastEvent = "header",
                         !.lastEventAt = clock])

\* the 'header' listeners (lines 128-150); size is UNDEF for a header that
\* declares none
HeaderListener(s, size, debug) ==
    ClearTimer([s EXCEPT !.receiveStartTime = IF @ = UNDEF THEN clock ELSE @,
                         !.inBlob = size # UNDEF,
                         !.remaining = IF size = UNDEF THEN 0 ELSE size,
                         !.hdrSize = size,
                         !.dataHash = IF debug THEN 0 ELSE @,
                         !.out = IF debug THEN Append(@, HeaderLine(size)) ELSE @,
                         !.lastEvent = "header",
                         !.lastEventAt = clock])

OnHeader(s, size) == HeaderListener(s, size, options.debugProtocol)

\* DataListener with the byte count kept inside the debug branch
DataListenerDebugOnly(s, len, debug) ==
    [s EXCEPT !.bytesReceived = IF debug THEN @ + len ELSE @,
              !.remaining = @ - len,
              !.dataHash = IF debug THEN @ + len ELSE @,
              !.lastEvent = "data",
              !.lastEventAt = clock]

\* the 'data' listener (lines 151-153); dataHash counts the bytes hashed
DataListener(s, len, debug) ==
    [s EXCEPT !.bytesReceived = @ + len,
              !.remaining = @ - len,
              !.dataHash = IF debug THEN @ + len ELSE @,
              !.lastEvent = "data",
              !.lastEventAt = clock]

OnData(s, len) == DataListener(s, len, options.debugProtocol)

\* the 'dataEnd' listener (lines 154-158)
DataEndListener(s, debug) ==
    SetTimer([s EXCEPT !.receiveEndTime = clock,
                       !.inBlob = FALSE,
                       !.out = IF debug
                               THEN Append(@, [kind |-> "digest", size |-> s.dataHash,
                                               newline |-> TRUE])
                               ELSE @,
                       !.dataHash = IF debug THEN DIGESTED ELSE @,
                       !.lastEvent = "dataEnd",
                       !.lastEventAt = clock])

OnDataEnd(s) == DataEndListener(s, options.debugProtocol)

\* dataHash.update or dataHash.digest throws (lines 152, 155): there is no
\* Hash object yet, or it has been digested
ListenerThrows(s, ev, debug) ==
    debug /\ ev \in {"data", "dataEnd"} /\ s.dataHash \in {UNDEF, DIGESTED}

\* the event the frame decoder may emit next: a header between frames, data
\* while bytes of the declared size are outstanding, dataEnd once they have all
\* been delivered (at once for a declared size of 0); a header without size is
\* followed by the next header
DecoderEmits(s, ev) ==
    CASE ev = "header" -> ~s.inBlob
      [] ev = "data" -> s.inBlob /\ s.remaining > 0
      [] ev = "dataEnd" -> s.inBlob /\ s.remaining = 0

\* the decoder emits 'header' for a frame the remote server sent
Header(i) ==
    /\ Alive
    /\ sess[i].spc = "open"
    /\ serverAddress = "valid"
    /\ DecoderEmits(sess[i], "header")
    /\ remote.frames > 0
    /\ \E size \in {z \in remote.sizes : z <= remote.bytes} :
          /\ sess' = [sess EXCEPT ![i] = OnHeader(sess[i], size)]
          /\ remote' = [remote EXCEPT !.frames = @ - 1,
                                      !.bytes = @ - (IF size = UNDEF THEN 0 ELSE size)]
    /\ UNCHANGED <<options, serverAddress, fileSize, timed, clock, pc, nullServer, jobs,
                   next, results, invoked, ret, errors, runError, listens, closes>>

\* the decoder emits 'data' for a chunk of the frame's blob
Data(i) ==
    /\ Alive
    /\ sess[i].spc = "open"
    /\ DecoderEmits(sess[i], "data")
    /\ IF ListenerThrows(sess[i], "data", options.debugProtocol)
       THEN Crash(i, "listenerError")
       ELSE \E len \in 1..sess[i].remaining : Local(i, OnData(sess[i], len))

\* the decoder emits 'dataEnd' once the declared size has been delivered
DataEnd(i) ==
    /\ Alive
    /\ sess[i].spc = "open"
    /\ DecoderEmits(sess[i], "dataEnd")
    /\ IF ListenerThrows(sess[i], "dataEnd", options.debugProtocol)
       THEN Crash(i, "listenerError")
       ELSE Local(i, OnDataEnd(sess[i]))

\* the timeout callback (line 115); on a socket that has already closed
\* client.end('') is ignored or emits an 'error' nobody listens for, depending
\* on the runtime
TimerFire(i) ==
    /\ Alive
    /\ sess[i].timer
    /\ Expired(sess[i])
    /\ \/ Local(i, ClientEnd([sess[i] EXCEPT !.timer = FALSE]))
       \/ sess[i].spc = "closed" /\ Crash(i, "endAfterClose")

\* the pipe writes the next chunk of the framed source to the socket
\* (line 171); once client.end('') has been called the write is refused with
\* an 'error' nobody listens for
Write(i) ==
    /\ Alive
    /\ sess[i].spc \in {"connecting", "open"}
    /\ sess[i].file \in {"open", "closed"}
    /\ sess[i].sent < sess[i].size
    /\ IF sess[i].ended
       THEN Crash(i, "writeAfterEnd")
       ELSE Local(i, [sess[i] EXCEPT !.sent = @ + 1])

\* the socket emits 'close' (lines 174-181): after the local end, or because the
\* remote server closed first (the local discard server never does); the job
\* pushes the result (line 79) and, when the batch is complete, run() resumes
Close(i) ==
    /\ Alive
    /\ sess[i].spc = "open"
    /\ sess[i].ended \/ serverAddress = "valid"
    /\ LET s1 == [sess EXCEPT ![i] = OnClose(sess[i])]
           rs1 == Append(results, s1[i].result) IN
       IF pc = "await" /\ AllFulfilled(s1, next)
       THEN Loop(jobs, s1, rs1, nullServer)
       ELSE /\ sess' = s1
            /\ results' = rs1
            /\ UNCHANGED <<pc, next, jobs, invoked, ret, nullServer, closes>>
    /\ UNCHANGED <<options, serverAddress, fileSize, timed, clock, errors, runError,
                   listens, remote>>

\* time passes; a due timer runs within Epsilon of its deadline
Tick ==
    /\ Alive
    /\ timed
    /\ clock + TickMs <= MaxClock
    /\ \A i \in JobIds : sess[i].timer => clock + TickMs <= sess[i].deadline + Epsilon
    /\ clock' = clock + TickMs
    /\ UNCHANGED <<options, serverAddress, fileSize, timed, pc, nullServer, jobs, next,
                   results, sess, invoked, ret, errors, runError, listens, closes,
                   remote>>

\* ------------------------------------------------------- specifications
Start ==
    /\ clock = 0
    /\ pc = "start"
    /\ nullServer = "null"
    /\ jobs = <<>>
    /\ next = {}
    /\ results = <<>>
    /\ sess = [i \in JobIds |-> NewSession]
    /\ invoked = [i \in JobIds |-> 0]
    /\ ret = NoStats
    /\ errors = <<>>
    /\ runError = 0
    /\ listens = 0
    /\ closes = 0

\* run() with any iteration count and concurrency, against the local discard
\* server or a remote server that sends one frame with a blob of one byte in
\* the whole run, without debug output; delays are abstracted (a pending timer may run at any moment)
\* and the progress of the writes to the sockets is not followed
Init ==
    /\ options \in [numIterations : 0..MaxIterations, numConcurrent : 1..MaxConcurrent,
                     debugProtocol : {FALSE}]
    /\ serverAddress \in {"none", "valid", "invalid"}
    /\ fileSize = MaxFileSize
    /\ remote = [frames |-> 1, bytes |-> 1, sizes |-> {1}]
    /\ timed = FALSE
    /\ Start

Next ==
    \/ RunStart
    \/ Listening
    \/ \E i \in JobIds : PathExists(i)
    \/ \E i \in JobIds : Stat(i)
    \/ \E i \in JobIds : ParseAddress(i)
    \/ \E i \in JobIds : Connected(i)
    \/ \E i \in JobIds : ConnError(i)
    \/ \E i \in JobIds : FileError(i)
    \/ \E i \in JobIds : DecoderError(i)
    \/ \E i \in JobIds : FileOpen(i)
    \/ \E i \in JobIds : FileClose(i)
    \/ \E i \in JobIds : Header(i)
    \/ \E i \in JobIds : Data(i)
    \/ \E i \in JobIds : DataEnd(i)
    \/ \E i \in JobIds : TimerFire(i)
    \/ \E i \in JobIds : Close(i)

Spec == Init /\ [][Next]_vars

\* one session under the clock, against the local discard server or a remote
\* server that sends up to MaxFrames frames, with or without a declared size,
\* of MaxBlob bytes in all
TimedInit ==
    /\ options = [numIterations |-> 1, numConcurrent |-> 1, debugProtocol |-> FALSE]
    /\ serverAddress \in {"none", "valid", "invalid"}
    /\ fileSize \in 0..MaxFileSize
    /\ remote = [frames |-> MaxFrames, bytes |-> MaxBlob, sizes |-> HeaderSizes]
    /\ timed = TRUE
    /\ Start

TimedNext == Next \/ Tick

TimedSpec == TimedInit /\ [][TimedNext]_vars

\* one session, with or without debug output, its writes followed; delays
\* are abstracted
SessionInit ==
    /\ options \in [numIterations : {1}, numConcurrent : {1}, debugProtocol : BOOLEAN]
    /\ serverAddress \in {"none", "valid", "invalid"}
    /\ fileSize \in 0..MaxFileSize
    /\ remote = [frames |-> MaxFrames, bytes |-> MaxBlob, sizes |-> HeaderSizes]
    /\ timed = FALSE
    /\ Start

SessionNext == Next \/ \E i \in JobIds : Write(i)

SessionSpec == SessionInit /\ [][SessionNext]_vars

\* ----------------------------------------------------------------- claims
\* the connection of session i is open: created and not yet closed
ConnOpen(i) == sess[i].spc \in {"connecting", "open"}

\* the job's promise has settled
Settled(i) == sess[i].spc \in {"closed", "failed"}

\* the batch job i belongs to when the jobs are cut into consecutive batches
BatchOf(i) == (i - 1) \div options.numConcurrent

\* C1: at every moment at most numConcurrent connections are open (created
\* and not yet closed), whatever the interleaving of the sessions' events.
C1_AtMostConcurrent ==
    Cardinality({i \in JobIds : ConnOpen(i)}) <= options.numConcurrent

C1_Witness ==
    /\ options.numIterations > options.numConcurrent
    /\ options.numConcurrent = 2
    /\ Cardinality({i \in JobIds : ConnOpen(i)}) = 2

\* C2: no session of a later batch is started before every session of each
\* earlier batch has settled; with numConcurrent = 1 session i+1 is started only
\* after the connection of session i has closed.
C2_BatchesInOrder ==
    /\ \A i, j \in JobIds :
          (BatchOf(i) < BatchOf(j) /\ invoked[j] > 0) => Settled(i)
    /\ options.numConcurrent = 1 =>
          \A i \in 1..MaxIterations : invoked[i + 1] > 0 => sess[i].spc = "closed"

C2_Witness ==
    /\ options.numIterations = 3
    /\ options.numConcurrent = 2
    /\ sess[1].closedBy = "local"
    /\ sess[2].closedBy = "remote"
    /\ sess[3].spc = "open"

\* C3: no deferred job is called twice and no job beyond numIterations is ever
\* called; when run() returns (no session failed) every one of the
\* numIterations jobs has been called exactly once and has resolved once.
C3_EachJobOnce ==
    /\ \A i \in JobIds : invoked[i] <= 1
    /\ \A i \in JobIds : i > options.numIterations => invoked[i] = 0
    /\ Cardinality({i \in JobIds : sess[i].spc # "idle"}) <= options.numIterations
    /\ pc = "done" =>
          /\ errors = <<>>
          /\ \A i \in 1..options.numIterations :
                invoked[i] = 1 /\ sess[i].resolves = 1

C3_Witness ==
    /\ pc = "done"
    /\ options.numIterations = 3
    /\ options.numConcurrent = 2

RECURSIVE SumField(_, _)
\* the sum of field f of the JobResults of jobs 1..n, in job order
SumField(f, n) ==
    IF n = 0 THEN 0 ELSE Plus(SumField(f, n - 1), sess[n].result[f])

\* the JobResults of jobs 1..n listed in the order p
InOrder(p, n) == [k \in 1..n |-> sess[p[k]].result]

\* C4: when run() returns, its value is the elementwise sum of the JobResults
\* the sessions resolved, and folding those JobResults in any other order of
\* completion gives the same value.
C4_AggregateIsSum ==
    pc = "done" =>
        LET n == options.numIterations IN
        /\ ret = [bytesSent |-> SumField("bytesSent", n),
                  bytesReceived |-> SumField("bytesReceived", n),
                  sendTime |-> SumField("sendTime", n),
                  receiveTime |-> SumField("receiveTime", n)]
        /\ \A p \in Permutations(1..n) : Reduce(InOrder(p, n)) = ret

C4_Witness ==
    /\ pc = "done"
    /\ options.numIterations = 3
    /\ options.numConcurrent = 2
    /\ results[1] = sess[2].result
    /\ sess[1].result.bytesReceived = 1
    /\ sess[1].result.receiveTime = 0
    /\ sess[2].result.bytesReceived = 0
    /\ sess[2].result.sendTime = 0
    /\ sess[3].result.sendTime = NaN

\* C5: as soon as a session has failed run() has failed, with the error of the
\* first session that failed, whether or not the other sessions of the batch
\* have settled; no job of a later batch is called and run() returns no
\* AggregateStats.
C5_FailFast ==
    /\ (\E i \in JobIds : sess[i].spc = "failed") => pc = "failed"
    /\ pc = "failed" =>
          /\ errors # <<>>
          /\ runError = Head(errors)
          /\ ret = NoStats
          /\ \A j \in JobIds : BatchOf(j) > BatchOf(runError) => invoked[j] = 0

C5_Witness ==
    /\ pc = "failed"
    /\ options.numIterations = 3
    /\ options.numConcurrent = 2
    /\ runError = 2
    /\ sess[1].spc = "open"
    /\ invoked[3] = 0

\* C6: once the decoder is silent the idle timer closes the connection: never
\* earlier than RECEIVE_DATA_TIMEOUT after the last decoder event, and at most
\* Epsilon later than that, whichever event came last.
C6_IdleTimeout ==
    \A i \in JobIds :
        (sess[i].spc = "open" /\ sess[i].lastEventAt # UNDEF) =>
            /\ sess[i].timer =>
                  sess[i].deadline >= sess[i].lastEventAt + RECEIVE_DATA_TIMEOUT
            /\ clock > sess[i].lastEventAt + RECEIVE_DATA_TIMEOUT + Epsilon =>
                  sess[i].ended

\* C7: a session's promise resolves exactly when its connection closes, once,
\* whether the close follows the local end or the remote server closed first,
\* and every close pushes one JobResult.
C7_OneResultPerClose ==
    /\ \A i \in JobIds :
          /\ sess[i].resolves <= 1
          /\ sess[i].resolves = 1 <=> sess[i].spc = "closed"
          /\ sess[i].spc = "closed" <=> sess[i].closedBy \in {"local", "remote"}
          /\ sess[i].spc = "closed" <=> sess[i].result # NoStats
    /\ Len(results) = Cardinality({i \in JobIds : sess[i].spc = "closed"})

C7_Witness ==
    /\ sess[1].closedBy = "remote"
    /\ sess[2].closedBy = "local"
    /\ sess[1].resolves = 1
    /\ sess[2].resolves = 1
    /\ Len(results) = 2

\* C8: every JobResult a session resolves has bytesSent equal to the size of
\* the source and three more fields that are defined integers.
C8_ResultFieldsDefined ==
    \A i \in JobIds :
        sess[i].resolves > 0 =>
            /\ sess[i].result.bytesSent = fileSize
            /\ sess[i].result.bytesReceived \in Nat
            /\ sess[i].result.sendTime \in Nat
            /\ sess[i].result.receiveTime \in Nat

\* C9: with numIterations = 0 no job is called, no session leaves its initial
\* state, nothing is pushed, and run() returns the all-zero statistics.
C9_ZeroIterations ==
    options.numIterations = 0 =>
        /\ \A i \in JobIds : invoked[i] = 0 /\ sess[i] = NewSession
        /\ results = <<>>
        /\ pc \in {"start", "listen", "done"}
        /\ pc = "done" => ret = ZeroStats

C9_Witness ==
    /\ options.numIterations = 0
    /\ pc = "done"
    /\ ret = ZeroStats
    /\ nullServer = "closed"

\* C10: in a run with the local discard server the server is started once and
\* closed once, a session is in progress only while it is listening, it is
\* closed only after every session has settled, and the run does not end
\* (return or throw) with the server still not closed.
C10_ServerLifecycle ==
    listens > 0 =>
        /\ listens = 1
        /\ closes <= 1
        /\ (\E i \in JobIds : sess[i].spc \notin {"idle", "closed", "failed"}) =>
              nullServer = "listening"
        /\ nullServer = "closed" =>
              \A i \in 1..options.numIterations : Settled(i)
        /\ pc \in {"done", "failed"} => (nullServer = "closed" /\ closes = 1)

\* the session's failure ended the process: its promise was neither rejected
\* nor resolved, and never will be
Unsettled(i) == sess[i].spc \in {"connError", "fileError", "decoderError"}

\* the session's promise was rejected and nothing was resolved
Rejected(i) ==
    /\ sess[i].spc = "failed"
    /\ sess[i].resolves = 0
    /\ i \in SeqSet(errors)

\* C11: a session whose source cannot be read, whose connection fails or whose
\* decoder rejects the inbound bytes ends with its promise rejected: it does
\* not resolve a result and is not left without ever settling.
C11_FailuresReject ==
    \A i \in JobIds :
        /\ ~Unsettled(i)
        /\ sess[i].spc = "failed" => Rejected(i)

\* a run of four iterations, two at a time, over the local discard server or
\* a remote server that sends one frame with a blob of one byte in the whole run
FourByTwoInit ==
    /\ options = [numIterations |-> 4, numConcurrent |-> 2, debugProtocol |-> FALSE]
    /\ serverAddress \in {"none", "valid", "invalid"}
    /\ fileSize = MaxFileSize
    /\ remote = [frames |-> 1, bytes |-> 1, sizes |-> {1}]
    /\ timed = FALSE
    /\ Start

FourByTwoSpec == FourByTwoInit /\ [][Next]_vars

\* the connections open at this moment
OpenNow == {i \in JobIds : ConnOpen(i)}

\* C12 as stated: with four iterations run two at a time, exactly two
\* connections are open at every moment between the start of the first
\* session and the settling of the last.
C12_ExactlyTwo == pc = "await" => Cardinality(OpenNow) = 2

\* C12: with four iterations run two at a time, at every moment of the run at
\* most two connections are open and they belong to the two sessions of the
\* batch in progress (a session of the batch that has not connected yet or has
\* already settled has none); none is open once the run has returned.
C12_AtMostTwo ==
    /\ Cardinality(OpenNow) <= 2
    /\ pc = "await" => (Cardinality(next) = 2 /\ OpenNow \subseteq next)
    /\ pc = "done" => OpenNow = {}

C12_Witness ==
    /\ sess[1].spc = "closed"
    /\ sess[2].spc = "closed"
    /\ sess[3].spc = "open"
    /\ sess[4].spc = "open"

\* what of a session's closure is not debug state
Core(s) == [s EXCEPT !.dataHash = UNDEF, !.out = <<>>]

\* C13: debug output does not affect a session: without debugProtocol a session
\* holds no debug state, and from every state a session reaches, each decoder
\* event handled with debugProtocol leaves, debug state apart, what it leaves
\* when handled without it: the same timer, the same byte counts and times,
\* hence the same result at the close; nor does a listener throw on account of
\* the debug code.
C13_DebugTransparent ==
    \A i \in JobIds :
        LET s == sess[i] IN
        /\ ~options.debugProtocol => s = Core(s)
        /\ s.spc # "listenerError"
        /\ s.spc = "open" =>
              /\ DecoderEmits(s, "header") =>
                    \A size \in HeaderSizes :
                        Core(HeaderListener(s, size, TRUE)) = HeaderListener(Core(s), size, FALSE)
              /\ DecoderEmits(s, "data") =>
                    /\ options.debugProtocol => ~ListenerThrows(s, "data", TRUE)
                    /\ \A len \in 1..s.remaining :
                          Core(DataListener(s, len, TRUE)) = DataListener(Core(s), len, FALSE)
              /\ DecoderEmits(s, "dataEnd") =>
                    /\ options.debugProtocol => ~ListenerThrows(s, "dataEnd", TRUE)
                    /\ Core(DataEndListener(s, TRUE)) = DataEndListener(Core(s), FALSE)
              /\ OnClose(s).result = OnClose(Core(s)).result

C13_Witness ==
    /\ options.debugProtocol
    /\ sess[1].spc = "open"
    /\ sess[1].bytesReceived = MaxBlob
    /\ sess[1].lastEvent = "dataEnd"
    /\ sess[1].timer
    /\ Len(sess[1].out) = 2

\* C14: in an open session no idle timer is pending from a header until the
\* dataEnd of its frame: a header leaves none pending, a pending timer was set
\* at the start or by the latest dataEnd, and none is pending, so none can run
\* and end the connection, while a data blob is partially received.
C14_NoTimerInFrame ==
    \A i \in JobIds :
        LET s == sess[i] IN
        s.spc = "open" =>
            /\ s.lastEvent \in {"header", "data"} => ~s.timer
            /\ s.inBlob => ~s.timer
            /\ s.timer => s.lastEvent \in {"none", "dataEnd"}

C14_Witness ==
    /\ sess[1].spc = "open"
    /\ ~sess[1].ended
    /\ sess[1].inBlob
    /\ sess[1].bytesReceived > 0
    /\ sess[1].remaining > 0
    /\ ~sess[1].timer
    /\ clock > RECEIVE_DATA_TIMEOUT

\* C15: while a session's connection is still being established no idle timer
\* is pending and none has fired: the timer is started only once the
\* connection is established.
C15_NoTimerWhileConnecting ==
    \A i \in JobIds :
        sess[i].spc = "connecting" => (~sess[i].timer /\ ~sess[i].ended)

\* receiveStartTime is set once a header has arrived and not before, the
\* latest dataEnd left its time in receiveEndTime, and the two are in order
ReceiveTimesInOrder ==
    \A i \in JobIds :
        LET s == sess[i] IN
        /\ s.spc = "open" =>
              /\ s.receiveStartTime = UNDEF <=> s.lastEvent = "none"
              /\ s.receiveEndTime # UNDEF =>
                    (s.receiveStartTime # UNDEF /\ s.receiveEndTime >= s.receiveStartTime)
              /\ s.lastEvent = "dataEnd" => s.receiveEndTime = s.lastEventAt
        /\ s.resolves > 0 => (s.result.receiveTime = NaN \/ s.result.receiveTime >= 0)

\* receiveStartTime is set by a header, to the time of that header, and is not
\* changed afterwards; receiveEndTime is changed only by a dataEnd, to its time
ReceiveTimesSteps ==
    \A i \in JobIds :
        (sess[i].spc = "open" /\ sess'[i].spc = "open") =>
            /\ sess[i].receiveStartTime # UNDEF =>
                  sess'[i].receiveStartTime = sess[i].receiveStartTime
            /\ (sess[i].receiveStartTime = UNDEF /\ sess'[i].receiveStartTime # UNDEF) =>
                  (sess'[i].lastEvent = "header" /\ sess'[i].receiveStartTime = clock)
            /\ sess'[i].receiveEndTime # sess[i].receiveEndTime =>
                  (sess'[i].lastEvent = "dataEnd" /\ sess'[i].receiveEndTime = clock)

\* C16: within a session receiveStartTime is set once, at the first header,
\* and later headers do not change it; receiveEndTime holds the time of the
\* latest dataEnd; when both are set receiveEndTime >= receiveStartTime and the
\* receiveTime of the result is not negative.
C16_ReceiveTimes == []ReceiveTimesInOrder /\ [][ReceiveTimesSteps]_vars

C16_Witness ==
    /\ sess[1].spc = "open"
    /\ sess[1].receiveStartTime = 0
    /\ sess[1].receiveEndTime = TickMs
    /\ sess[1].lastEvent = "header"
    /\ sess[1].lastEventAt = 2 * TickMs

\* the last line printed by a session
LastLine(s) == s.out[Len(s.out)]

\* C17: with debugProtocol, a header line is printed for each inbound frame
\* before any of its data is handled, and it carries the size exactly when the
\* header declares one, 0 included; a digest line is printed once per frame
\* with a blob, at its dataEnd, over the bytes of that frame's data events and
\* nothing of an earlier frame.
C17_DebugLines ==
    \A i \in JobIds :
        LET s == sess[i] IN
        (options.debugProtocol /\ s.spc = "open" /\ s.lastEvent # "none") =>
            /\ Len(s.out) > 0
            /\ s.lastEvent = "header" =>
                  /\ LastLine(s).kind = "header"
                  /\ LastLine(s).size = s.hdrSize
            /\ s.lastEvent = "data" =>
                  /\ LastLine(s).kind = "header"
                  /\ s.dataHash = s.hdrSize - s.remaining
            /\ s.lastEvent = "dataEnd" =>
                  /\ LastLine(s).kind = "digest"
                  /\ LastLine(s).size = s.hdrSize
            /\ \A k \in 1..Len(s.out) :
                  s.out[k].kind = "digest" => (k > 1 /\ s.out[k - 1].kind = "header")
            /\ Cardinality({k \in 1..Len(s.out) : s.out[k].kind = "header"})
                  = MaxFrames - remote.frames

\* the event loop runs the continuations of run() that are ready
LiveSpec == Spec /\ WF_vars(RunStart) /\ WF_vars(Listening)

\* the jobs not yet taken from the queue
Remaining == IF pc = "await" THEN Len(jobs) ELSE options.numIterations

\* a round of the loop of lines 84-87 takes min(numConcurrent, remaining) >= 1
\* jobs from the queue and starts them
RoundShrinks ==
    (pc' = "await" /\ (pc # "await" \/ next' # next)) =>
        LET started == {i \in JobIds : invoked'[i] > invoked[i]} IN
        /\ Cardinality(started) = Min(options.numConcurrent, Remaining)
        /\ Cardinality(started) >= 1
        /\ Len(jobs') = Remaining - Cardinality(started)

\* run() has returned its aggregate or thrown
Returned == pc \in {"done", "failed"}

\* C18: whatever numIterations >= 0 and numConcurrent >= 1, each round of the
\* loop takes min(numConcurrent, remaining) >= 1 jobs from the queue, and if
\* every session that is started eventually settles, run() eventually returns
\* or throws.
C18_RunReturns ==
    /\ [][RoundShrinks]_vars
    /\ (\A i \in JobIds : [](invoked[i] > 0 => <>Settled(i))) => <>Returned

C18_Witness ==
    /\ options.numIterations = MaxIterations
    /\ options.numConcurrent = 2
    /\ pc = "done"
    /\ jobs = <<>>
    /\ \A i \in 1..MaxIterations : sess[i].closedBy = "local"

\* C19: the idle timer does not fire while the source is still being sent:
\* once its callback has ended the write side, every byte of the source has
\* been written to the connection and no write is attempted afterwards.
C19_EndAfterSourceSent ==
    \A i \in JobIds :
        /\ (sess[i].spc \in {"connecting", "open"} /\ sess[i].ended) =>
              sess[i].sent = sess[i].size
        /\ sess[i].spc # "writeAfterEnd"

\* C20: once a session's connection has closed and its result has been
\* resolved, whichever side closed first, the session has no idle timer
\* pending, and the timer callback never runs on a closed connection.
C20_NoTimerAfterClose ==
    \A i \in JobIds :
        /\ (sess[i].spc = "closed" /\ sess[i].resolves > 0) => ~sess[i].timer
        /\ sess[i].spc # "endAfterClose"

====
